---- MODULE Spec2Model ----
(***************************************************************************)
(* Model of the analytics engine of the literature-review assistant       *)
(* (src/Analytics.js, class AdvancedAnalytics).                            *)
(*                                                                         *)
(* Representation.                                                         *)
(*  - A JavaScript string is a sequence of one-character strings.          *)
(*  - A JavaScript number is a record [num, den]: the rational num/den     *)
(*    with den > 0 and gcd(num, den) = 1; NaN is [num |-> 0, den |-> 0]    *)
(*    and +Infinity is [num |-> 1, den |-> 0].  Arithmetic is exact, where *)
(*    the program rounds to IEEE doubles.                                  *)
(*  - An optional argument is a record [present, val]; `undefined` is      *)
(*    Absent.                                                              *)
(*  - Array.prototype.filter is SelectSeq.                                  *)
(***************************************************************************)
EXTENDS Integers, Sequences, FiniteSets, TLC

(***************************************************************************)
(* Numbers                                                                 *)
(***************************************************************************)
RECURSIVE GCD(_, _)
GCD(a, b) == IF b = 0 THEN a ELSE GCD(b, a % b)

Rat(n, d) == LET g == GCD(n, d) IN [num |-> n \div g, den |-> d \div g]

N(k) == [num |-> k, den |-> 1]

NaN == [num |-> 0, den |-> 0]

Infinity == [num |-> 1, den |-> 0]

IsNaN(x) == x.num = 0 /\ x.den = 0

IsFinite(x) == x.den > 0

\* a < b as JavaScript evaluates it: FALSE whenever an operand is NaN.
Lt(a, b) ==
    /\ ~IsNaN(a)
    /\ ~IsNaN(b)
    /\ IF IsFinite(a) /\ IsFinite(b) THEN a.num * b.den < b.num * a.den
       ELSE IsFinite(a) /\ ~IsFinite(b)

Gt(a, b) == Lt(b, a)

Leq(a, b) == ~IsNaN(a) /\ ~IsNaN(b) /\ ~Lt(b, a)

\* a + b
Add(a, b) ==
    IF IsFinite(a) /\ IsFinite(b)
    THEN Rat(a.num * b.den + b.num * a.den, a.den * b.den)
    ELSE IF IsNaN(a) \/ IsNaN(b) THEN NaN ELSE Infinity

\* a / b for a, b >= 0; x / 0 is Infinity for x > 0 and NaN for x = 0.
Div(a, b) ==
    IF IsNaN(a) \/ IsNaN(b) THEN NaN
    ELSE IF ~IsFinite(a) THEN (IF IsFinite(b) THEN Infinity ELSE NaN)
    ELSE IF ~IsFinite(b) THEN N(0)
    ELSE IF b.num = 0 THEN (IF a.num = 0 THEN NaN ELSE Infinity)
    ELSE Rat(a.num * b.den, a.den * b.num)

\* a * b for a, b >= 0 and finite.
Mul(a, b) == Rat(a.num * b.num, a.den * b.den)

\* Math.min(a, b) and Math.max(a, b): NaN if either operand is NaN.
MathMin(a, b) == IF IsNaN(a) \/ IsNaN(b) THEN NaN ELSE IF Lt(b, a) THEN b ELSE a

MathMax(a, b) == IF IsNaN(a) \/ IsNaN(b) THEN NaN ELSE IF Lt(a, b) THEN b ELSE a

\* Math.floor(n / 2) and Math.ceil((p / 100) * n) for integers n, p >= 0.
FloorHalf(n) == n \div 2

\* Deviation: the percentile rank rounded down instead of up.
FloorPercent(p, n) == (p * n) \div 100

CeilPercent(p, n) == (p * n + 99) \div 100

(***************************************************************************)
(* Strings                                                                 *)
(***************************************************************************)
LowerLetters ==
    {"a","b","c","d","e","f","g","h","i","j","k","l","m",
     "n","o","p","q","r","s","t","u","v","w","x","y","z"}

UpperToLower ==
    "A" :> "a" @@ "B" :> "b" @@ "C" :> "c" @@ "D" :> "d" @@ "E" :> "e" @@
    "F" :> "f" @@ "G" :> "g" @@ "H" :> "h" @@ "I" :> "i" @@ "J" :> "j" @@
    "K" :> "k" @@ "L" :> "l" @@ "M" :> "m" @@ "N" :> "n" @@ "O" :> "o" @@
    "P" :> "p" @@ "Q" :> "q" @@ "R" :> "r" @@ "S" :> "s" @@ "T" :> "t" @@
    "U" :> "u" @@ "V" :> "v" @@ "W" :> "w" @@ "X" :> "x" @@ "Y" :> "y" @@
    "Z" :> "z"

Digits == {"0","1","2","3","4","5","6","7","8","9"}

\* The characters the regular-expression class \w matches.
WordChars == LowerLetters \cup DOMAIN UpperToLower \cup Digits \cup {"_"}

\* The characters the regular-expression class \s matches (those in use).
Whitespace == {" ", "\t", "\n"}

\* The character class [.!?]
SentenceEnd == {".", "!", "?"}

Range(s) == {s[i] : i \in 1..Len(s)}

\* String.prototype.toLowerCase
toLowerCase(s) ==
    [i \in 1..Len(s) |-> IF s[i] \in DOMAIN UpperToLower THEN UpperToLower[s[i]] ELSE s[i]]
    \o <<>>

\* The k-th smallest element of a set of integers.
nth(S, k) == CHOOSE i \in S : Cardinality({j \in S : j < i}) = k - 1

\* String.prototype.split(/[seps]+/): the pieces between maximal runs of
\* separator characters; a leading or trailing run leaves an empty piece at
\* that end, and the empty string splits into one empty piece.
split(s, seps) ==
    LET n == Len(s)
        starts == {i \in 1..n : s[i] \notin seps /\ (i = 1 \/ s[i - 1] \in seps)}
        ends == {i \in 1..n : s[i] \notin seps /\ (i = n \/ s[i + 1] \in seps)}
        pieces == [k \in 1..Cardinality(starts) |-> SubSeq(s, nth(starts, k), nth(ends, k))]
    IN  (IF n = 0 \/ s[1] \in seps THEN <<<<>>>> ELSE <<>>)
        \o pieces
        \o (IF n > 0 /\ s[n] \in seps THEN <<<<>>>> ELSE <<>>)

\* String.prototype.trim
RECURSIVE trim(_)
trim(s) ==
    IF s = <<>> THEN s
    ELSE IF s[1] \in Whitespace THEN trim(Tail(s))
    ELSE IF s[Len(s)] \in Whitespace THEN trim(SubSeq(s, 1, Len(s) - 1))
    ELSE s

\* String.prototype.includes
includes(hay, needle) ==
    \E i \in 0..(Len(hay) - Len(needle)) : SubSeq(hay, i + 1, i + Len(needle)) = needle

\* Array.prototype.join
RECURSIVE join(_, _)
join(parts, sep) ==
    IF parts = <<>> THEN <<>>
    ELSE IF Len(parts) = 1 THEN parts[1]
    ELSE parts[1] \o sep \o join(Tail(parts), sep)

\* RegExp.prototype.test for /\b(w1|w2|...)\b/: some alternative occurs in q
\* with a word boundary on each side.
testWordRegex(words, q) ==
    \E w \in words : \E i \in 1..(Len(q) - Len(w) + 1) :
        /\ SubSeq(q, i, i + Len(w) - 1) = w
        /\ (i = 1 \/ q[i - 1] \notin WordChars)
        /\ (i + Len(w) - 1 = Len(q) \/ q[i + Len(w)] \notin WordChars)

(***************************************************************************)
(* Optional arguments                                                      *)
(***************************************************************************)
Absent == [present |-> FALSE, val |-> <<>>]

Some(v) == [present |-> TRUE, val |-> v]

\* Deviation: the guard without its length test.
MissingOnly(arr) == ~arr.present

\* `!arr || arr.length === 0`
MissingOrEmpty(arr) == ~arr.present \/ Len(arr.val) = 0

(***************************************************************************)
(* The per-query metrics                                                   *)
(***************************************************************************)
\* The sentences of a text: split on [.!?]+, keeping those whose trimmed
\* length exceeds minLen.
sentencesLongerThan(text, minLen) ==
    LET Keep(s) == Len(trim(s)) > minLen
    IN  SelectSeq(split(text, SentenceEnd), Keep)

calculateDiversity(text) ==
    LET tokens == split(toLowerCase(text), Whitespace)
        unigrams == Range(tokens)
        bigrams == {tokens[i] \o <<"_">> \o tokens[i + 1] : i \in 1..(Len(tokens) - 1)}
    IN  [distinct1 |-> IF Len(tokens) > 0
                       THEN Div(N(Cardinality(unigrams)), N(Len(tokens))) ELSE N(0),
         distinct2 |-> IF Len(tokens) > 1
                       THEN Div(N(Cardinality(bigrams)), N(Len(tokens) - 1)) ELSE N(0),
         uniqueTokens |-> Cardinality(unigrams)]

\* Deviation: sentences compared as written, neither trimmed nor lower-cased.
repetitionCountRaw(sentences) ==
    Cardinality({i \in 1..Len(sentences) :
                    \E j \in 1..(i - 1) : sentences[j] = sentences[i]})

\* The number of sentences whose normalized form occurs at an earlier index.
repetitionCount(sentences) ==
    LET normalized == [i \in 1..Len(sentences) |-> toLowerCase(trim(sentences[i]))]
    IN  Cardinality({i \in 1..Len(sentences) :
                        \E j \in 1..(i - 1) : normalized[j] = normalized[i]})

calculateRepetition(text) ==
    LET sentences == sentencesLongerThan(text, 0)
    IN  IF Len(sentences) < 2 THEN N(0)
        ELSE Div(N(repetitionCount(sentences)), N(Len(sentences)))

\* contextChunks.map(c => c.text.toLowerCase()).join(' ')
contextTextOf(chunks) ==
    join([i \in 1..Len(chunks) |-> toLowerCase(chunks[i].text)], <<" ">>)

calculateContextUtilization(response, contextChunks) ==
    IF MissingOrEmpty(contextChunks) THEN N(0)
    ELSE LET contextText == contextTextOf(contextChunks.val)
             responseWords == Range(split(toLowerCase(response), Whitespace))
             contextWords == Range(split(contextText, Whitespace))
             usedWords == Cardinality({w \in responseWords : w \in contextWords /\ Len(w) > 3})
         IN  IF Cardinality(contextWords) > 0
             THEN Div(N(usedWords), N(Cardinality(contextWords))) ELSE N(0)

\* Deviation: a sentence without content words given the match rate 0.
matchRateZeroIfNone(sentence, contextText) ==
    LET IsContent(w) == Len(w) > 4
        words == SelectSeq(split(toLowerCase(sentence), Whitespace), IsContent)
        InContext(w) == includes(contextText, w)
        matches == SelectSeq(words, InContext)
    IN  IF Len(words) = 0 THEN N(0) ELSE Div(N(Len(matches)), N(Len(words)))

\* matches.length / words.length for one sentence: the share of its content
\* words (length > 4) that occur in the context text; NaN when it has none.
matchRate(sentence, contextText) ==
    LET IsContent(w) == Len(w) > 4
        words == SelectSeq(split(toLowerCase(sentence), Whitespace), IsContent)
        InContext(w) == includes(contextText, w)
        matches == SelectSeq(words, InContext)
    IN  Div(N(Len(matches)), N(Len(words)))

calculateGrounding(response, contextChunks) ==
    IF MissingOrEmpty(contextChunks) THEN N(0)
    ELSE LET responseSentences == sentencesLongerThan(response, 20)
             contextText == contextTextOf(contextChunks.val)
             groundedSentences ==
                Cardinality({i \in 1..Len(responseSentences) :
                    Gt(matchRate(responseSentences[i], contextText), Rat(3, 10))})
         IN  IF Len(responseSentences) = 0 THEN N(0)
             ELSE Div(N(groundedSentences), N(Len(responseSentences)))

detectHallucination(response, contextChunks) ==
    IF MissingOrEmpty(contextChunks) THEN N(1)
    ELSE LET contextText == contextTextOf(contextChunks.val)
             responseSentences == sentencesLongerThan(response, 20)
             possibleHallucinations ==
                Cardinality({i \in 1..Len(responseSentences) :
                    Lt(matchRate(responseSentences[i], contextText), Rat(2, 10))})
         IN  IF Len(responseSentences) > 0
             THEN Div(N(possibleHallucinations), N(Len(responseSentences))) ELSE N(0)

\* new Set(arr.map(x => x.source))
sourceSet(arr) == {arr[i].source : i \in 1..Len(arr)}

\* calculateCitationCoverage dereferences `sources` without a guard: with
\* context chunks supplied and sources undefined, sources.map raises TypeError.
citationCoverageThrows(sources, contextChunks) ==
    ~MissingOrEmpty(contextChunks) /\ ~sources.present

calculateCitationCoverage(sources, contextChunks) ==
    IF MissingOrEmpty(contextChunks) THEN N(0)
    ELSE Div(N(Cardinality(sourceSet(sources.val))),
             N(Cardinality(sourceSet(contextChunks.val))))

\* Deviation: topSimilarity used as the threshold in place of 0.5.
calculateRetrievalPrecisionTop(contextChunks, topSimilarity, avgSimilarity) ==
    IF MissingOrEmpty(contextChunks) THEN N(0)
    ELSE LET chunks == contextChunks.val
             highQualityChunks ==
                Cardinality({i \in 1..Len(chunks) :
                                ~Lt(chunks[i].similarity, topSimilarity)})
         IN  Div(N(highQualityChunks), N(Len(chunks)))

calculateRetrievalPrecision(contextChunks, topSimilarity, avgSimilarity) ==
    IF MissingOrEmpty(contextChunks) THEN N(0)
    ELSE LET chunks == contextChunks.val
             highQualityChunks ==
                Cardinality({i \in 1..Len(chunks) : Gt(chunks[i].similarity, Rat(5, 10))})
         IN  Div(N(highQualityChunks), N(Len(chunks)))

QuestionWords == {<<"w","h","a","t">>, <<"w","h","o">>, <<"w","h","e","n">>, <<"w","h","e","r","e">>, <<"w","h","y">>, <<"h","o","w">>, <<"w","h","i","c","h">>}

SummaryWords == {<<"s","u","m","m","a","r","i","z","e">>, <<"s","u","m","m","a","r","y">>, <<"o","v","e","r","v","i","e","w">>, <<"b","r","i","e","f">>}

ComparisonWords == {<<"c","o","m","p","a","r","e">>, <<"c","o","n","t","r","a","s","t">>, <<"d","i","f","f","e","r","e","n","c","e">>, <<"v","e","r","s","u","s">>, <<"v","s">>}

GenerationWords == {<<"g","e","n","e","r","a","t","e">>, <<"c","r","e","a","t","e">>, <<"w","r","i","t","e">>, <<"c","o","m","p","o","s","e">>}

\* Deviation: the comparison rule tried before the summary rule.
classifyQueryComparisonFirst(query) ==
    LET q == toLowerCase(query)
    IN  IF testWordRegex(QuestionWords, q) THEN "question"
        ELSE IF testWordRegex(ComparisonWords, q) THEN "comparison"
        ELSE IF testWordRegex(SummaryWords, q) THEN "summary"
        ELSE IF testWordRegex(GenerationWords, q) THEN "generation"
        ELSE "other"

classifyQuery(query) ==
    LET q == toLowerCase(query)
    IN  IF testWordRegex(QuestionWords, q) THEN "question"
        ELSE IF testWordRegex(SummaryWords, q) THEN "summary"
        ELSE IF testWordRegex(ComparisonWords, q) THEN "comparison"
        ELSE IF testWordRegex(GenerationWords, q) THEN "generation"
        ELSE "other"

calculateQueryComplexity(query) ==
    LET words == split(query, Whitespace)
        sentences == sentencesLongerThan(query, 0)
        hasQuestionMark == includes(query, <<"?">>)
        hasClauses == Cardinality({i \in 1..Len(query) : query[i] \in {",", ";"}})
    IN  [wordCount |-> Len(words),
         sentenceCount |-> Len(sentences),
         avgWordsPerSentence |-> IF Len(sentences) > 0
                                 THEN Div(N(Len(words)), N(Len(sentences))) ELSE N(0),
         hasQuestion |-> hasQuestionMark,
         complexity |-> MathMin(N(10),
                                Add(Add(Rat(Len(words), 5), N(hasClauses)),
                                    N(IF hasQuestionMark THEN 1 ELSE 0)))]

CompletenessStoplist ==
    {<<"w","h","a","t">>, <<"w","h","e","n">>, <<"w","h","e","r","e">>, <<"w","h","i","c","h">>, <<"c","o","u","l","d">>, <<"w","o","u","l","d">>, <<"s","h","o","u","l","d">>}

calculateCompleteness(query, response) ==
    LET IsKey(w) == Len(w) > 4 /\ w \notin CompletenessStoplist
        queryWords == SelectSeq(split(toLowerCase(query), Whitespace), IsKey)
        responseLower == toLowerCase(response)
        Addressed(w) == includes(responseLower, w)
        addressedWords == SelectSeq(queryWords, Addressed)
    IN  IF Len(queryWords) = 0 THEN N(1)
        ELSE Div(N(Len(addressedWords)), N(Len(queryWords)))

calculateSourceDiversity(sources) ==
    IF MissingOrEmpty(sources) THEN N(0)
    ELSE Div(N(Cardinality(sourceSet(sources.val))), N(Len(sources.val)))

(***************************************************************************)
(* trackQuery                                                              *)
(***************************************************************************)
QueryTypeNames == {"question", "summary", "comparison", "generation", "other"}

\* The 14 per-query sequences of this.metrics that trackQuery appends to.
PerQuerySequences ==
    {"responseLengths", "diversityDistinct1", "diversityDistinct2", "repetitionScores",
     "contextUtilization", "answerGrounding", "citationCoverage", "retrievalPrecision",
     "totalGenTime", "throughput", "queryComplexity", "hallucinationScores",
     "completenessScores", "sourceDiversity"}

\* this.metrics as the constructor builds it.
NewMetrics ==
    [responseLengths |-> <<>>, vocabularyUnique |-> {}, repetitionScores |-> <<>>,
     diversityDistinct1 |-> <<>>, diversityDistinct2 |-> <<>>,
     contextUtilization |-> <<>>, answerGrounding |-> <<>>, citationCoverage |-> <<>>,
     retrievalPrecision |-> <<>>,
     totalGenTime |-> <<>>, throughput |-> <<>>, memoryUsage |-> <<>>,
     queryComplexity |-> <<>>, sessionDurations |-> <<>>, followUpRates |-> <<>>,
     queryTypes |-> [t \in QueryTypeNames |-> 0],
     hallucinationScores |-> <<>>, completenessScores |-> <<>>, sourceDiversity |-> <<>>]

\* totalTimeMs > 0 ? (tokensGenerated / totalTimeMs) * 1000 : 0
throughputOf(tokensGenerated, totalTimeMs) ==
    IF Gt(totalTimeMs, N(0)) THEN Mul(Div(tokensGenerated, totalTimeMs), N(1000)) ELSE N(0)

\* The values one trackQuery call computes from its argument, and whether
\* the call raises before computing them all.
queryMetrics(data) ==
    [threw |-> citationCoverageThrows(data.sources, data.contextChunks),
     responseLength |-> N(Len(data.response)),
     diversity |-> calculateDiversity(data.response),
     repetition |-> calculateRepetition(data.response),
     contextUtilization |-> calculateContextUtilization(data.response, data.contextChunks),
     answerGrounding |-> calculateGrounding(data.response, data.contextChunks),
     citationCoverage |-> calculateCitationCoverage(data.sources, data.contextChunks),
     retrievalPrecision |-> calculateRetrievalPrecision(data.contextChunks,
                                                        data.topSimilarity,
                                                        data.avgSimilarity),
     totalTimeMs |-> data.totalTimeMs,
     throughput |-> throughputOf(data.tokensGenerated, data.totalTimeMs),
     queryComplexity |-> calculateQueryComplexity(data.query),
     queryType |-> classifyQuery(data.query),
     hallucinationScore |-> detectHallucination(data.response, data.contextChunks),
     completeness |-> calculateCompleteness(data.query, data.response),
     sourceDiversity |-> calculateSourceDiversity(data.sources)]

\* The pushes trackQuery makes before it calls calculateCitationCoverage.
pushBeforeCitation(m, q) ==
    [m EXCEPT !.responseLengths = Append(@, q.responseLength),
              !.diversityDistinct1 = Append(@, q.diversity.distinct1),
              !.diversityDistinct2 = Append(@, q.diversity.distinct2),
              !.repetitionScores = Append(@, q.repetition),
              !.contextUtilization = Append(@, q.contextUtilization),
              !.answerGrounding = Append(@, q.answerGrounding)]

\* The pushes and the counter increment from calculateCitationCoverage on.
pushFromCitation(m, q) ==
    [m EXCEPT !.citationCoverage = Append(@, q.citationCoverage),
              !.retrievalPrecision = Append(@, q.retrievalPrecision),
              !.totalGenTime = Append(@, q.totalTimeMs),
              !.throughput = Append(@, q.throughput),
              !.queryComplexity = Append(@, q.queryComplexity.complexity),
              !.queryTypes[q.queryType] = @ + 1,
              !.hallucinationScores = Append(@, q.hallucinationScore),
              !.completenessScores = Append(@, q.completeness),
              !.sourceDiversity = Append(@, q.sourceDiversity)]

\* this.metrics after trackQuery(data), whether it returns or raises.
metricsAfterTrack(m, q) ==
    IF q.threw THEN pushBeforeCitation(m, q)
    ELSE pushFromCitation(pushBeforeCitation(m, q), q)

\* The object trackQuery returns.
queryResult(q) ==
    [responseLength |-> q.responseLength,
     diversity |-> q.diversity,
     repetition |-> q.repetition,
     contextUtilization |-> q.contextUtilization,
     answerGrounding |-> q.answerGrounding,
     citationCoverage |-> q.citationCoverage,
     retrievalPrecision |-> q.retrievalPrecision,
     throughput |-> q.throughput,
     queryComplexity |-> q.queryComplexity,
     queryType |-> q.queryType,
     hallucinationScore |-> q.hallucinationScore,
     completeness |-> q.completeness,
     sourceDiversity |-> q.sourceDiversity]

(***************************************************************************)
(* getAggregatedStats                                                      *)
(***************************************************************************)
RECURSIVE sum(_)
sum(arr) == IF arr = <<>> THEN N(0) ELSE Add(arr[1], sum(Tail(arr)))

\* Deviation: the mean without its guard for the empty array.
avgUnguarded(arr) == Div(sum(arr), N(Len(arr)))

\* arr.length > 0 ? arr.reduce((a, b) => a + b, 0) / arr.length : 0
avg(arr) == IF Len(arr) > 0 THEN Div(sum(arr), N(Len(arr))) ELSE N(0)

\* [...arr].sort((a, b) => a - b)
RECURSIVE insertSorted(_, _)
insertSorted(sorted, x) ==
    IF sorted = <<>> THEN <<x>>
    ELSE IF Lt(x, sorted[1]) THEN <<x>> \o sorted
    ELSE <<sorted[1]>> \o insertSorted(Tail(sorted), x)

RECURSIVE sortAscending(_)
sortAscending(arr) ==
    IF arr = <<>> THEN <<>>
    ELSE insertSorted(sortAscending(SubSeq(arr, 1, Len(arr) - 1)), arr[Len(arr)])

\* Indices are 0-based in the program and 1-based here.
median(arr) ==
    IF Len(arr) = 0 THEN N(0)
    ELSE LET sorted == sortAscending(arr)
             mid == FloorHalf(Len(sorted))
         IN  IF Len(sorted) % 2 = 0
             THEN Div(Add(sorted[mid], sorted[mid + 1]), N(2))
             ELSE sorted[mid + 1]

percentile(arr, p) ==
    IF Len(arr) = 0 THEN N(0)
    ELSE LET sorted == sortAscending(arr)
             idx == CeilPercent(p, Len(sorted)) - 1
         IN  sorted[(IF idx > 0 THEN idx ELSE 0) + 1]

\* Math.min(...arr, 0)
RECURSIVE minWithZero(_)
minWithZero(arr) ==
    IF arr = <<>> THEN N(0) ELSE MathMin(arr[1], minWithZero(Tail(arr)))

\* Math.max(...arr, 0)
RECURSIVE maxWithZero(_)
maxWithZero(arr) ==
    IF arr = <<>> THEN N(0) ELSE MathMax(arr[1], maxWithZero(Tail(arr)))

aggregatedStats(m) ==
    [generation |->
        [avgResponseLength |-> avg(m.responseLengths),
         medianResponseLength |-> median(m.responseLengths),
         minResponseLength |-> minWithZero(m.responseLengths),
         maxResponseLength |-> maxWithZero(m.responseLengths),
         avgDistinct1 |-> avg(m.diversityDistinct1),
         avgDistinct2 |-> avg(m.diversityDistinct2),
         avgRepetition |-> avg(m.repetitionScores)],
     rag |->
        [avgContextUtilization |-> avg(m.contextUtilization),
         avgAnswerGrounding |-> avg(m.answerGrounding),
         avgCitationCoverage |-> avg(m.citationCoverage),
         avgRetrievalPrecision |-> avg(m.retrievalPrecision)],
     performance |->
        [avgTotalGenTime |-> avg(m.totalGenTime),
         medianTotalGenTime |-> median(m.totalGenTime),
         p95TotalGenTime |-> percentile(m.totalGenTime, 95),
         avgThroughput |-> avg(m.throughput)],
     engagement |->
        [avgQueryComplexity |-> avg(m.queryComplexity),
         queryTypeDistribution |-> m.queryTypes],
     quality |->
        [avgHallucinationScore |-> avg(m.hallucinationScores),
         avgCompleteness |-> avg(m.completenessScores),
         avgSourceDiversity |-> avg(m.sourceDiversity)]]

(***************************************************************************)
(* Inputs                                                                  *)
(***************************************************************************)
\* The longest run of trackQuery calls the model follows.
MaxQueries == 3

\* The longest run of identical calls SpecPercentile starts with.
MaxPrefill == 19

\* The AdvancedAnalytics instances constructed.
Instances == {1, 2}

Chunk(text, source, similarity) ==
    [text |-> text, source |-> source, similarity |-> similarity]

Cited(source, similarity) == [source |-> source, similarity |-> similarity]

QueryRecord(query, response, sources, contextChunks, totalTimeMs, tokensGenerated, topSimilarity, avgSimilarity) ==
    [query |-> query, response |-> response, sources |-> sources,
     contextChunks |-> contextChunks, ttftMs |-> N(100), totalTimeMs |-> N(totalTimeMs),
     tokensGenerated |-> N(tokensGenerated), topSimilarity |-> topSimilarity,
     avgSimilarity |-> avgSimilarity]

chunkA == Chunk(<<"T","h","e"," ","s","k","y"," ","a","p","p","e","a","r","s"," ","c","l","e","a","r","l","y"," ","b","l","u","e">>, "paperA", Rat(9, 10))

chunkB == Chunk(<<"M","e","t","h","o","d","s"," ","d","i","f","f","e","r"," ","b","e","t","w","e","e","n"," ","s","t","u","d","i","e","s">>, "paperB", Rat(5, 10))

chunkA2 == Chunk(<<"L","i","g","h","t"," ","s","c","a","t","t","e","r","s">>, "paperA", Rat(2, 10))

citeA == Cited("paperA", Rat(9, 10))

citeB == Cited("paperB", Rat(5, 10))

citeC == Cited("paperC", Rat(1, 10))

queryCompare == <<"C","o","m","p","a","r","e"," ","t","h","e"," ","m","e","t","h","o","d","o","l","o","g","i","e","s"," ","u","s","e","d"," ","i","n"," ","p","a","p","e","r"," ","A"," ","a","n","d"," ","p","a","p","e","r"," ","B">>

queryWhatDifference == <<"W","h","a","t"," ","i","s"," ","t","h","e"," ","d","i","f","f","e","r","e","n","c","e","?">>

querySummarizeCompare == <<"S","u","m","m","a","r","i","z","e"," ","a","n","d"," ","c","o","m","p","a","r","e",","," ","t","h","e","n"," ","w","r","i","t","e">>

queryWriteWhatever == <<"W","r","i","t","e"," ","w","h","a","t","e","v","e","r"," ","o","v","e","r","v","i","e","w","s">>

queryMethods == <<"m","e","t","h","o","d","s">>

responseSkyTwice == <<"T","h","e"," ","s","k","y"," ","i","s"," ","b","l","u","e","."," ","T","h","e"," ","s","k","y"," ","i","s"," ","b","l","u","e",".">>

responseBlue == <<"B","l","u","e",".">>

responseClearly == <<"T","h","e"," ","s","k","y"," ","i","s"," ","c","l","e","a","r","l","y"," ","b","l","u","e"," ","t","o","d","a","y","."," ","G","r","a","s","s"," ","g","r","o","w","s"," ","q","u","i","t","e"," ","g","r","e","e","n"," ","i","n"," ","s","p","r","i","n","g","!">>

responseOk == <<"o","k">>

\* Three sentences: one without a word longer than 4 characters, one about
\* the sky, one about grass.
responseNoContent == <<"I","t"," ","i","s"," ","s","o"," ","f","a","r"," ","a","s"," ","w","e"," ","c","a","n"," ","s","e","e"," ","i","t","."," ","T","h","e"," ","s","k","y"," ","i","s"," ","c","l","e","a","r","l","y"," ","b","l","u","e"," ","t","o","d","a","y","."," ","G","r","a","s","s"," ","g","r","o","w","s"," ","q","u","i","t","e"," ","g","r","e","e","n"," ","i","n"," ","s","p","r","i","n","g",".">>

\* Two sentences, neither with a word longer than 4 characters.
responseShortWords == <<"I","t"," ","i","s"," ","s","o"," ","f","a","r"," ","a","s"," ","w","e"," ","c","a","n"," ","s","e","e"," ","i","t",","," ","o","r"," ","s","o","."," ","A","n","d"," ","s","o"," ","o","n"," ","a","s"," ","f","a","r"," ","a","s"," ","w","e"," ","g","o"," ","h","e","r","e","!">>

\* Two sentences: of the first, one word in four longer than 4 characters
\* occurs in chunkA; of the second, one in two.
responseQuarter == <<"C","l","e","a","r","l","y"," ","g","r","a","s","s"," ","g","r","o","w","s"," ","g","r","e","e","n","."," ","T","h","e"," ","s","k","y"," ","a","p","p","e","a","r","s"," ","b","l","u","e"," ","t","o","d","a","y","?">>

GroundingResponses == {responseNoContent, responseShortWords, responseQuarter}

recCompare ==
    QueryRecord(queryCompare, responseSkyTwice, Some(<<citeA, citeB>>),
                Some(<<chunkA, chunkB>>), 1200, 30, Rat(9, 10), Rat(7, 10))

recQuestion ==
    QueryRecord(queryWhatDifference, responseBlue, Some(<<citeA>>),
                Some(<<chunkA, chunkB>>), 800, 2, Rat(4, 10), Rat(3, 10))

recSummary ==
    QueryRecord(querySummarizeCompare, responseClearly, Some(<<citeA, citeA>>),
                Some(<<chunkA, chunkA2>>), 500, 12, Rat(9, 10), Rat(5, 10))

recGeneration ==
    QueryRecord(queryWriteWhatever, responseOk, Absent, Absent, 0, 1, N(0), N(0))

recEmpty ==
    QueryRecord(<<>>, <<>>, Some(<<>>), Some(<<>>), 0, 0, N(0), N(0))

\* Context chunks supplied and no `sources` field.
recNoSources ==
    QueryRecord(queryMethods, responseOk, Absent, Some(<<chunkA>>), 300, 1,
                Rat(9, 10), Rat(9, 10))

CoreRecords == {recCompare, recQuestion, recSummary, recGeneration, recEmpty, recNoSources}

\* Responses made of up to three sentences.  Sentences 1 and 2 differ only
\* in letter case and outer spaces; sentence 3 is another sentence.
SentenceTexts ==
    <<<<"T","h","e"," ","s","k","y"," ","i","s"," ","c","l","e","a","r","l","y"," ","b","l","u","e"," ","t","o","d","a","y">>, <<" ","t","h","e"," ","S","K","Y"," ","i","s"," ","c","l","e","a","r","l","y"," ","b","l","u","e"," ","t","o","d","a","y"," ">>,
      <<"G","r","a","s","s"," ","g","r","o","w","s"," ","q","u","i","t","e"," ","g","r","e","e","n"," ","i","n"," ","s","p","r","i","n","g">>>>

SentenceClass == <<1, 1, 2>>

Terminators == <<<<"."," ">>, <<"!">>, <<"?","!"," ">>, <<".">>>>

SentenceLists == UNION {[1..n -> 1..Len(SentenceTexts)] : n \in 0..3} \cup {<<1, 2, 1, 1>>}

RECURSIVE renderFrom(_, _)
renderFrom(ids, k) ==
    IF k > Len(ids) THEN <<>>
    ELSE SentenceTexts[ids[k]] \o Terminators[k] \o renderFrom(ids, k + 1)

render(ids) == renderFrom(ids, 1)

ContextInputs == {Some(<<>>), Absent, Some(<<chunkA>>), Some(<<chunkA, chunkB>>)}

SourceInputs == {Absent, Some(<<>>), Some(<<citeA>>), Some(<<citeA, citeC>>)}

\* Every response against every context, and every combination of sparse
\* fields.
InputRecords ==
    {QueryRecord(queryCompare, render(ids), Some(<<citeA>>), c, 800, 8, Rat(9, 10), Rat(7, 10)) :
        ids \in SentenceLists, c \in ContextInputs}
    \cup
    {QueryRecord(q, r, s, c, t, 8, Rat(9, 10), Rat(7, 10)) :
        q \in {queryCompare, <<>>}, r \in {<<>>, responseSkyTwice, render(<<1, 3>>)},
        s \in SourceInputs, c \in ContextInputs, t \in {0, 800}}
    \cup
    {QueryRecord(queryCompare, r, Some(<<citeA>>), c, 800, 8, Rat(9, 10), Rat(7, 10)) :
        r \in GroundingResponses, c \in ContextInputs}

\* Records that differ in totalTimeMs only.
TimingRecords ==
    {QueryRecord(queryMethods, responseOk, Some(<<citeA>>), Some(<<chunkA>>), t, 1,
                 Rat(9, 10), Rat(9, 10)) : t \in {100, 3000}}

recPrefill ==
    QueryRecord(queryMethods, responseOk, Some(<<citeA>>), Some(<<chunkA>>), 800, 1,
                Rat(9, 10), Rat(9, 10))

(***************************************************************************)
(* State                                                                   *)
(***************************************************************************)
VARIABLES
    metrics,    \* the metrics objects the constructor calls created, by identity
    calls,      \* calls[i]: the trackQuery calls made on instance i, in order:
                \*   their argument, whether they raised, what they returned
    last        \* the last call made: the method, the instance, its outcome

vars == <<metrics, calls, last>>

\* Deviation: one module-level metrics object shared by all instances.
metricsRefShared(i) == 1

\* The identity of the object instance i holds in this.metrics: each
\* constructor call evaluates the object literal anew.
metricsRef(i) == i

\* this.metrics of instance i
thisMetrics(i) == metrics[metricsRef(i)]

TotalCalls == Len(calls[1]) + Len(calls[2])

\* queryMetrics on CoreRecords, computed once.
coreMetrics == [d \in CoreRecords |-> queryMetrics(d)]

trackedMetrics(data) ==
    IF data \in DOMAIN coreMetrics THEN coreMetrics[data] ELSE queryMetrics(data)

\* What a trackQuery call does for its caller: returns q's values, or raises.
outcome(q) == IF q.threw THEN "TypeError" ELSE queryResult(q)

Init ==
    /\ metrics = [o \in {metricsRef(i) : i \in Instances} |-> NewMetrics]
    /\ calls = [i \in Instances |-> <<>>]
    /\ last = [op |-> "constructor"]

trackQuery(i, data) ==
    \E q \in {trackedMetrics(data)} :
        /\ metrics' = [metrics EXCEPT ![metricsRef(i)] = metricsAfterTrack(@, q)]
        /\ calls' = [calls EXCEPT ![i] =
                        Append(@, [data |-> data, threw |-> q.threw, value |-> outcome(q)])]
        /\ last' = [op |-> "trackQuery", inst |-> i, data |-> data, threw |-> q.threw,
                    value |-> outcome(q)]

getAggregatedStats(i) ==
    /\ last' = [op |-> "getAggregatedStats", inst |-> i,
                value |-> aggregatedStats(thisMetrics(i))]
    /\ UNCHANGED <<metrics, calls>>

export(i) ==
    /\ last' = [op |-> "export", inst |-> i,
                value |-> [raw |-> thisMetrics(i), aggregated |-> aggregatedStats(thisMetrics(i))]]
    /\ UNCHANGED <<metrics, calls>>

Next ==
    \E i \in Instances :
        \/ TotalCalls < MaxQueries /\ \E data \in CoreRecords : trackQuery(i, data)
        \/ getAggregatedStats(i)
        \/ export(i)

Spec == Init /\ [][Next]_vars

\* One trackQuery call on a fresh instance, over a wide set of records.
NextInputs ==
    \/ TotalCalls = 0 /\ \E data \in InputRecords : trackQuery(1, data)
    \/ getAggregatedStats(1)

SpecInputs == Init /\ [][NextInputs]_vars

\* Up to MaxPrefill identical calls, then up to MaxQueries calls that differ
\* from them in totalTimeMs.
NextPercentile ==
    \/ /\ \A k \in 1..Len(calls[1]) : calls[1][k].data = recPrefill
       /\ Len(calls[1]) < MaxPrefill
       /\ trackQuery(1, recPrefill)
    \/ /\ Cardinality({k \in 1..Len(calls[1]) : calls[1][k].data # recPrefill}) < MaxQueries
       /\ \E data \in TimingRecords : trackQuery(1, data)
    \/ getAggregatedStats(1)

SpecPercentile == Init /\ [][NextPercentile]_vars


(***************************************************************************)
(* Properties                                                              *)
(***************************************************************************)
\* The trackQuery calls on instance i that returned.
completed(i) == SelectSeq(calls[i], LAMBDA e : ~e.threw)

\* Each mean, median and percentile of getAggregatedStats with the sequence
\* it is taken over.
StatSources ==
    {<<"generation", "avgResponseLength", "responseLengths">>,
     <<"generation", "medianResponseLength", "responseLengths">>,
     <<"generation", "avgDistinct1", "diversityDistinct1">>,
     <<"generation", "avgDistinct2", "diversityDistinct2">>,
     <<"generation", "avgRepetition", "repetitionScores">>,
     <<"rag", "avgContextUtilization", "contextUtilization">>,
     <<"rag", "avgAnswerGrounding", "answerGrounding">>,
     <<"rag", "avgCitationCoverage", "citationCoverage">>,
     <<"rag", "avgRetrievalPrecision", "retrievalPrecision">>,
     <<"performance", "avgTotalGenTime", "totalGenTime">>,
     <<"performance", "medianTotalGenTime", "totalGenTime">>,
     <<"performance", "p95TotalGenTime", "totalGenTime">>,
     <<"performance", "avgThroughput", "throughput">>,
     <<"engagement", "avgQueryComplexity", "queryComplexity">>,
     <<"quality", "avgHallucinationScore", "hallucinationScores">>,
     <<"quality", "avgCompleteness", "completenessScores">>,
     <<"quality", "avgSourceDiversity", "sourceDiversity">>}

\* C1: a trackQuery call whose contextChunks is the empty sequence returns,
\* whatever its other fields, contextUtilization 0, answerGrounding 0,
\* citationCoverage 0 and hallucinationScore 1, and appends exactly these
\* four values to the sequences of this.metrics (here: of a fresh instance).
C1_EmptyContextDefaults ==
    (last.op = "trackQuery" /\ last.data.contextChunks = Some(<<>>)) =>
        /\ ~last.threw
        /\ last.value.contextUtilization = N(0)
        /\ last.value.answerGrounding = N(0)
        /\ last.value.citationCoverage = N(0)
        /\ last.value.hallucinationScore = N(1)
        /\ thisMetrics(last.inst).contextUtilization = <<N(0)>>
        /\ thisMetrics(last.inst).answerGrounding = <<N(0)>>
        /\ thisMetrics(last.inst).citationCoverage = <<N(0)>>
        /\ thisMetrics(last.inst).hallucinationScores = <<N(1)>>

\* C1's case: an empty context with a non-empty response, no sources field
\* and a zero totalTimeMs has been tracked.
C1_Witness ==
    /\ last.op = "trackQuery"
    /\ last.data.contextChunks = Some(<<>>)
    /\ last.data.sources = Absent
    /\ last.data.response = responseSkyTwice
    /\ last.data.totalTimeMs = N(0)
    /\ thisMetrics(last.inst).hallucinationScores = <<N(1)>>

\* C2: getAggregatedStats on an instance that has tracked nothing returns 0
\* for every mean, median and the 95th percentile, for min and max and for
\* every queryTypeDistribution counter; and in every state each mean, median
\* and percentile taken over an empty sequence is 0 (never NaN).
C2_EmptyAggregatesZero ==
    last.op = "getAggregatedStats" =>
        /\ \A t \in StatSources :
              thisMetrics(last.inst)[t[3]] = <<>> => last.value[t[1]][t[2]] = N(0)
        /\ calls[last.inst] = <<>> =>
              /\ \A t \in StatSources : last.value[t[1]][t[2]] = N(0)
              /\ last.value.generation.minResponseLength = N(0)
              /\ last.value.generation.maxResponseLength = N(0)
              /\ \A c \in QueryTypeNames :
                    last.value.engagement.queryTypeDistribution[c] = 0

\* C2's case: getAggregatedStats has been called on an instance with no
\* trackQuery call yet.
C2_Witness ==
    /\ last.op = "getAggregatedStats"
    /\ calls[last.inst] = <<>>
    /\ last.value.performance.p95TotalGenTime = N(0)

\* A record with one of the sparse fields of C3.
Sparse(data) ==
    \/ data.response = <<>>
    \/ data.query = <<>>
    \/ MissingOrEmpty(data.sources)
    \/ MissingOrEmpty(data.contextChunks)
    \/ data.totalTimeMs = N(0)

\* Every number of a returned metrics object is a defined, finite number.
NumbersDefined(v) ==
    /\ \A f \in {"responseLength", "repetition", "contextUtilization", "answerGrounding",
                 "citationCoverage", "retrievalPrecision", "throughput",
                 "hallucinationScore", "completeness", "sourceDiversity"} : IsFinite(v[f])
    /\ IsFinite(v.diversity.distinct1)
    /\ IsFinite(v.diversity.distinct2)
    /\ IsFinite(v.queryComplexity.avgWordsPerSentence)
    /\ IsFinite(v.queryComplexity.complexity)

\* C3: trackQuery on a record with an empty response or query, empty or
\* absent sources, empty or absent contextChunks or a zero totalTimeMs (in
\* any combination) raises no error, returns only defined numbers and leaves
\* the 14 sequences equally long.
C3_SparseRecordsNeverThrow ==
    (last.op = "trackQuery" /\ Sparse(last.data)) =>
        /\ ~last.threw
        /\ NumbersDefined(last.value)
        /\ \A f, g \in PerQuerySequences :
              Len(thisMetrics(last.inst)[f]) = Len(thisMetrics(last.inst)[g])

\* C4: after n completed trackQuery calls on an instance each of the 14
\* sequences has length n, the queryTypes counters sum to n, and the
\* sequences hold the values those calls returned, in call order (so nothing
\* is changed or removed, and a repeated record is counted again).
C4_SequencesMatchCompletedCalls ==
    \A i \in Instances :
        LET done == completed(i)
            m == thisMetrics(i)
        IN  /\ \A f \in PerQuerySequences : Len(m[f]) = Len(done)
            /\ m.queryTypes["question"] + m.queryTypes["summary"]
                 + m.queryTypes["comparison"] + m.queryTypes["generation"]
                 + m.queryTypes["other"] = Len(done)
            /\ \A k \in 1..Len(done) :
                  /\ m.responseLengths[k] = done[k].value.responseLength
                  /\ m.citationCoverage[k] = done[k].value.citationCoverage
                  /\ m.sourceDiversity[k] = done[k].value.sourceDiversity

\* The category each query of CoreRecords belongs to by the first-match rule.
ExpectedQueryType ==
    (queryCompare :> "comparison") @@          \* comparison vocabulary only
    (queryWhatDifference :> "question") @@     \* interrogative and comparison
    (querySummarizeCompare :> "summary") @@    \* summary, comparison, generation
    (queryWriteWhatever :> "generation") @@    \* "whatever", "overviews": no whole word
    (queryMethods :> "other") @@
    (<<>> :> "other")

\* The rules in their fixed order.
OrderedRules ==
    <<[words |-> QuestionWords, type |-> "question"],
      [words |-> SummaryWords, type |-> "summary"],
      [words |-> ComparisonWords, type |-> "comparison"],
      [words |-> GenerationWords, type |-> "generation"]>>

\* For each query of CoreRecords, the rules whose vocabulary it contains.
MatchingRules ==
    [q \in DOMAIN ExpectedQueryType |->
        {r \in 1..Len(OrderedRules) : testWordRegex(OrderedRules[r].words, toLowerCase(q))}]

\* C5: every trackQuery call that returns reports the category of the first
\* rule, in the order question, summary, comparison, generation, whose
\* vocabulary the query contains ("other" if none does); "Compare the
\* methodologies used in paper A and paper B" is a comparison; and each
\* queryTypes counter is the number of returned calls of that category.
C5_FirstMatchClassification ==
    \A i \in Instances :
        /\ \A k \in 1..Len(calls[i]) :
              LET e == calls[i][k]
                  matching == MatchingRules[e.data.query]
              IN  ~e.threw =>
                    /\ e.value.queryType = ExpectedQueryType[e.data.query]
                    /\ matching = {} => e.value.queryType = "other"
                    /\ matching # {} =>
                          \E r \in matching :
                              /\ \A r2 \in matching : r <= r2
                              /\ e.value.queryType = OrderedRules[r].type
        /\ \A c \in QueryTypeNames :
              thisMetrics(i).queryTypes[c] =
                  Cardinality({k \in 1..Len(calls[i]) :
                                  ~calls[i][k].threw /\ calls[i][k].value.queryType = c})

\* C5's case: one instance has tracked the comparison example, a query with
\* interrogative and comparison words and one with summary, comparison and
\* generation words.
C5_Witness ==
    /\ thisMetrics(1).queryTypes["comparison"] = 1
    /\ thisMetrics(1).queryTypes["question"] = 1
    /\ thisMetrics(1).queryTypes["summary"] = 1
    /\ \E k \in 1..Len(calls[1]) : calls[1][k].data.query = queryCompare

\* The repetition score of a response rendered from the sentences ids:
\* the sentences of the class of an earlier sentence, over all sentences.
expectedRepetition(ids) ==
    IF Len(ids) < 2 THEN N(0)
    ELSE Rat(Cardinality({i \in 1..Len(ids) :
                \E j \in 1..(i - 1) : SentenceClass[ids[j]] = SentenceClass[ids[i]]}),
             Len(ids))

RenderedResponses == [ids \in SentenceLists |-> render(ids)]

\* C6: the repetition score trackQuery computes for a response is the
\* number of its sentences that equal an earlier sentence after trimming and
\* lower-casing, over the number of sentences, and 0 below 2 sentences;
\* "The sky is blue. The sky is blue." scores 1/2 and k copies (k-1)/k.
C6_RepetitionScore ==
    last.op = "trackQuery" =>
        /\ \A ids \in SentenceLists :
              last.data.response = RenderedResponses[ids] =>
                  /\ thisMetrics(last.inst).repetitionScores = <<expectedRepetition(ids)>>
                  /\ ~last.threw => last.value.repetition = expectedRepetition(ids)
        /\ last.data.response = responseSkyTwice =>
              thisMetrics(last.inst).repetitionScores = <<Rat(1, 2)>>
        /\ last.data.response = RenderedResponses[<<1, 2, 1, 1>>] =>
              thisMetrics(last.inst).repetitionScores = <<Rat(3, 4)>>

\* C6's case: a response of four copies of one sentence has been tracked.
C6_Witness ==
    /\ last.op = "trackQuery"
    /\ ~last.threw
    /\ last.data.response = RenderedResponses[<<1, 2, 1, 1>>]
    /\ last.value.repetition = Rat(3, 4)

\* The totalTimeMs values instance i has tracked.
trackedTimes(i) == [k \in 1..Len(completed(i)) |-> completed(i)[k].data.totalTimeMs]

\* ceil(95 * n / 100) for n >= 1
nearestRank(n) == CHOOSE r \in 1..n : 100 * r >= 95 * n /\ 100 * (r - 1) < 95 * n

\* C7: after n >= 1 tracked queries p95TotalGenTime is the value of rank
\* ceil(95n/100) among the tracked totalTimeMs values in ascending order: it
\* is one of them, at least that many of them (hence at least 95%) are less
\* than or equal to it, and fewer than that many are less than it.
C7_P95NearestRank ==
    (last.op = "getAggregatedStats" /\ trackedTimes(last.inst) # <<>>) =>
        LET T == trackedTimes(last.inst)
            n == Len(T)
            v == last.value.performance.p95TotalGenTime
            atMost == Cardinality({k \in 1..n : Leq(T[k], v)})
            below == Cardinality({k \in 1..n : Lt(T[k], v)})
        IN  /\ \E k \in 1..n : T[k] = v
            /\ atMost >= nearestRank(n)
            /\ below < nearestRank(n)
            /\ 100 * atMost >= 95 * n

\* C7's case: of 20 tracked values the largest is above the 95th percentile.
C7_Witness ==
    /\ last.op = "getAggregatedStats"
    /\ Len(trackedTimes(last.inst)) = 20
    /\ last.value.performance.p95TotalGenTime = N(800)
    /\ \E k \in 1..20 : trackedTimes(last.inst)[k] = N(3000)

\* The share of the chunks whose similarity is strictly greater than 1/2.
expectedPrecision(contextChunks) ==
    IF ~contextChunks.present \/ contextChunks.val = <<>> THEN N(0)
    ELSE Rat(Cardinality({k \in 1..Len(contextChunks.val) :
                2 * contextChunks.val[k].similarity.num > contextChunks.val[k].similarity.den}),
             Len(contextChunks.val))

AllCompleted == UNION {Range(completed(i)) : i \in Instances}

\* C8: the retrieval precision a trackQuery call returns is the share of the
\* supplied chunks with similarity > 0.5 (0 without chunks), and two calls
\* with the same contextChunks return the same precision whatever their
\* topSimilarity and avgSimilarity.
C8_PrecisionIgnoresSimilarityArgs ==
    \A e \in AllCompleted :
        /\ e.value.retrievalPrecision = expectedPrecision(e.data.contextChunks)
        /\ \A e2 \in AllCompleted :
              e2.data.contextChunks = e.data.contextChunks =>
                  e2.value.retrievalPrecision = e.value.retrievalPrecision

\* C8's case: two calls with the same chunks, one of them of similarity
\* exactly 0.5, and different topSimilarity and avgSimilarity have returned.
C8_Witness ==
    \E e, e2 \in AllCompleted :
        /\ e.data.contextChunks = Some(<<chunkA, chunkB>>)
        /\ e2.data.contextChunks = e.data.contextChunks
        /\ e2.data.topSimilarity # e.data.topSimilarity
        /\ e2.data.avgSimilarity # e.data.avgSimilarity
        /\ e.value.retrievalPrecision = Rat(1, 2)

\* this.metrics of an instance on which exactly these calls were made.
RECURSIVE replayCalls(_)
replayCalls(entries) ==
    IF entries = <<>> THEN NewMetrics
    ELSE metricsAfterTrack(replayCalls(SubSeq(entries, 1, Len(entries) - 1)),
                           trackedMetrics(entries[Len(entries)].data))

\* C9: a trackQuery call on one instance leaves this.metrics of every other
\* instance unchanged, and getAggregatedStats of an instance returns the
\* aggregates of the calls made on that instance alone.
C9_SessionsIsolated ==
    [][/\ last'.op = "trackQuery" =>
            \A j \in Instances \ {last'.inst} : thisMetrics(j)' = thisMetrics(j)
       /\ last'.op = "getAggregatedStats" =>
            last'.value = aggregatedStats(replayCalls(calls'[last'.inst]))]_vars

\* C9's case: both instances have tracked queries, not the same ones, and
\* the aggregates of one have been taken.
C9_Witness ==
    /\ last.op = "getAggregatedStats"
    /\ calls[1] # <<>>
    /\ calls[2] # <<>>
    /\ calls[1] # calls[2]

\* C10: once a response length has been tracked, minResponseLength is the
\* smallest and maxResponseLength the largest tracked response length, and
\* the median and the mean lie between them.
C10_MinMaxResponseLength ==
    (last.op = "getAggregatedStats" /\ thisMetrics(last.inst).responseLengths # <<>>) =>
        LET L == thisMetrics(last.inst).responseLengths
            g == last.value.generation
        IN  /\ \E k \in 1..Len(L) : L[k] = g.minResponseLength
            /\ \A k \in 1..Len(L) : Leq(g.minResponseLength, L[k])
            /\ \E k \in 1..Len(L) : L[k] = g.maxResponseLength
            /\ \A k \in 1..Len(L) : Leq(L[k], g.maxResponseLength)
            /\ Leq(g.minResponseLength, g.medianResponseLength)
            /\ Leq(g.medianResponseLength, g.maxResponseLength)
            /\ Leq(g.minResponseLength, g.avgResponseLength)
            /\ Leq(g.avgResponseLength, g.maxResponseLength)

\* The words of a sentence longer than 4 characters.
contentWords(sentence) ==
    SelectSeq(split(toLowerCase(sentence), Whitespace), LAMBDA w : Len(w) > 4)

\* C11: for a trackQuery call with non-empty contextChunks, no sentence of
\* the response (of more than 20 characters) is counted both as grounded
\* (match rate > 30%) and as a possible hallucination (match rate < 20%), a
\* sentence without content words is counted as neither, the scores the call
\* computes are these two counts over the number of sentences, and the
\* returned answerGrounding and hallucinationScore add up to at most 1.
C11_GroundedOrHallucinatedNotBoth ==
    (last.op = "trackQuery" /\ ~MissingOrEmpty(last.data.contextChunks)) =>
        LET sentences == sentencesLongerThan(last.data.response, 20)
            n == Len(sentences)
            contextText == contextTextOf(last.data.contextChunks.val)
            rate == [k \in 1..n |-> matchRate(sentences[k], contextText)]
            grounded == {k \in 1..n : Gt(rate[k], Rat(3, 10))}
            hallucinated == {k \in 1..n : Lt(rate[k], Rat(2, 10))}
            onlyChunkA == last.data.contextChunks = Some(<<chunkA>>)
        IN  /\ grounded \cap hallucinated = {}
            /\ \A k \in 1..n :
                  contentWords(sentences[k]) = <<>> => k \notin grounded \cup hallucinated
            /\ n > 0 =>
                  LET pushed == thisMetrics(last.inst).answerGrounding
                  IN  pushed[Len(pushed)] = Rat(Cardinality(grounded), n)
            /\ ~last.threw =>
                  /\ n > 0 => last.value.hallucinationScore = Rat(Cardinality(hallucinated), n)
                  /\ Leq(Add(last.value.answerGrounding, last.value.hallucinationScore), N(1))
                  /\ last.data.response = responseShortWords =>
                        /\ last.value.answerGrounding = N(0)
                        /\ last.value.hallucinationScore = N(0)
                  /\ (last.data.response = responseNoContent /\ onlyChunkA) =>
                        /\ last.value.answerGrounding = Rat(1, 3)
                        /\ last.value.hallucinationScore = Rat(1, 3)
                  /\ (last.data.response = responseQuarter /\ onlyChunkA) =>
                        /\ last.value.answerGrounding = Rat(1, 2)
                        /\ last.value.hallucinationScore = N(0)

\* C11's case: a response of one sentence without content words, one
\* grounded and one unsupported sentence has been tracked against a context.
C11_Witness ==
    /\ last.op = "trackQuery"
    /\ ~last.threw
    /\ last.data.response = responseNoContent
    /\ last.data.contextChunks = Some(<<chunkA>>)
    /\ last.value.answerGrounding = Rat(1, 3)
    /\ last.value.hallucinationScore = Rat(1, 3)

\* 0 <= x <= 1 (false of NaN)
InUnitInterval(x) == Leq(N(0), x) /\ Leq(x, N(1))

\* The fraction-valued metrics: the field of the object trackQuery returns
\* and the sequence of this.metrics the value is appended to.
FractionMetrics ==
    {<<"repetition", "repetitionScores">>,
     <<"contextUtilization", "contextUtilization">>,
     <<"answerGrounding", "answerGrounding">>,
     <<"citationCoverage", "citationCoverage">>,
     <<"retrievalPrecision", "retrievalPrecision">>,
     <<"hallucinationScore", "hallucinationScores">>,
     <<"completeness", "completenessScores">>,
     <<"sourceDiversity", "sourceDiversity">>}

FractionSequences ==
    {f[2] : f \in FractionMetrics} \cup {"diversityDistinct1", "diversityDistinct2"}

\* The fraction-valued metrics but for `excluded` lie in [0, 1]: those a
\* trackQuery call returned, those appended to this.metrics, and their means.
FractionsWithinUnitIntervalBut(excluded) ==
    /\ (last.op = "trackQuery" /\ ~last.threw) =>
          /\ \A f \in FractionMetrics :
                f[2] \notin excluded => InUnitInterval(last.value[f[1]])
          /\ InUnitInterval(last.value.diversity.distinct1)
          /\ InUnitInterval(last.value.diversity.distinct2)
    /\ \A i \in Instances : \A s \in FractionSequences \ excluded :
          \A k \in 1..Len(thisMetrics(i)[s]) : InUnitInterval(thisMetrics(i)[s][k])
    /\ last.op = "getAggregatedStats" =>
          \A t \in StatSources :
              t[3] \in FractionSequences \ excluded => InUnitInterval(last.value[t[1]][t[2]])

\* C12: every fraction-valued metric trackQuery returns and appends to
\* this.metrics (distinct1, distinct2, repetition, contextUtilization,
\* answerGrounding, citationCoverage, retrievalPrecision, hallucinationScore,
\* completeness, sourceDiversity) lies in [0, 1] for every record, also when
\* its sources name documents that are not among the contextChunks; and so
\* does every mean of them getAggregatedStats returns.
C12_FractionsWithinUnitInterval == FractionsWithinUnitIntervalBut({})

====
